---- MODULE Spec2Model ----
(***************************************************************************)
(* AcademicMetrics: the category and faculty statistics aggregation and    *)
(* deduplication run (CategoryDataOrchestrator.run_orchestrator) and the   *)
(* article filter of PipelineRunner.run_pipeline.                          *)
(*                                                                         *)
(* CategoryProcessor, FacultyPostprocessor, FacultyDepartmentManager and   *)
(* the FacultyStats / CategoryInfo data classes are imported by the        *)
(* orchestrator but their code is not part of the source tree at hand:     *)
(* their operations are modelled from the design document (spec.md, the    *)
(* sections are cited at each definition).  The orchestrator's own control *)
(* flow, its refinement loops and its serialization are modelled from the  *)
(* source.                                                                 *)
(***************************************************************************)
EXTENDS Integers, Sequences, FiniteSets, TLC

(***************************************************************************)
(* Bounds                                                                  *)
(***************************************************************************)
\* Longest batch of classified records handed to the orchestrator.
MaxRecords == 2
\* Longest list of articles fetched by the pipeline.
MaxFetched == 3
\* Largest number of articles the operator asks for at the debug prompt.
MaxSlice == 2
\* Most register_dataclass calls in a run of the factory.
MaxRegistrations == 2
\* Most instances the factory creates in a run.
MaxInstances == 2
\* Most keys of the dictionary handed to convert_sets_to_lists.
MaxDictKeys == 2
\* Deepest nesting of dictionaries inside that dictionary.
MaxDepth == 2
\* Longest category name handed to addUrl, in characters.
MaxNameLen == 4
\* Most articles in the mapping handed to insert_articles.
MaxArticles == 2

(***************************************************************************)
(* Input vocabulary                                                        *)
(***************************************************************************)
\* A record without an identifier carries NoId.
NoId == "no-id"
Ids == {"a1", "a2"}
\* The citation count of each article.
CiteOf == [i \in Ids \cup {NoId} |-> IF i = "a1" THEN 5 ELSE IF i = "a2" THEN 3 ELSE 1]

Names == {"J. Smith", "Jon Smith", "John Smith"}
\* Length of each spelling: the resolver's canonical name is the longest
\* spelling of a group (spec 4.2, deterministic tie-break).
NameLen == [n \in Names |-> IF n = "J. Smith" THEN 8 ELSE IF n = "Jon Smith" THEN 9 ELSE 10]
\* The department affiliation supplied with an author name, NoDept if none.
NoDept == "no-dept"
DeptOf == [n \in Names |-> IF n = "J. Smith" THEN "Physics"
                           ELSE IF n = "Jon Smith" THEN "Biology" ELSE NoDept]

Cats == {"CS", "Pure Math"}
CatLists == {<<"CS">>, <<"CS", "Pure Math">>}
AuthorLists == {<<"J. Smith">>, <<"Jon Smith">>, <<"John Smith">>,
                <<"J. Smith", "Jon Smith">>}

\* ClassifiedRecord (spec 3): identifier, citation count, ordered author
\* names, category tags.
WellFormedRecords ==
    {[id |-> i, cites |-> CiteOf[i], authors |-> a, cats |-> c] :
        i \in Ids, a \in AuthorLists, c \in CatLists}
MalformedRecords ==
    {[id |-> NoId, cites |-> CiteOf[NoId], authors |-> <<"J. Smith">>, cats |-> <<"CS">>],
     [id |-> "a1", cites |-> CiteOf["a1"], authors |-> <<"Jon Smith">>, cats |-> <<>>],
     [id |-> "a2", cites |-> CiteOf["a2"], authors |-> <<>>,
      cats |-> <<"CS", "Pure Math">>]}
RecordPool == WellFormedRecords \cup MalformedRecords

RECURSIVE SeqsUpTo(_, _)
\* All sequences over S of length at most n.
SeqsUpTo(S, n) ==
    IF n = 0 THEN {<<>>}
    ELSE LET shorter == SeqsUpTo(S, n - 1)
         IN  shorter \cup {Append(s, x) : s \in {t \in shorter : Len(t) = n - 1}, x \in S}

\* The unordered pairs of names the similarity policy may judge "same identity".
NamePairs == {p \in SUBSET Names : Cardinality(p) = 2}

(***************************************************************************)
(* Python dict: an insertion-ordered map, a sequence of [k, v] entries.    *)
(***************************************************************************)
Range(s) == {s[i] : i \in 1..Len(s)}
Keys(d) == [i \in 1..Len(d) |-> d[i].k]
KeySet(d) == {d[i].k : i \in 1..Len(d)}
Has(d, k) == k \in KeySet(d)
IndexOf(d, k) == CHOOSE i \in 1..Len(d) : d[i].k = k
Get(d, k) == d[IndexOf(d, k)].v
\* d[k] = v: an existing key keeps its position, a new key goes last.
Put(d, k, v) ==
    IF Has(d, k) THEN [d EXCEPT ![IndexOf(d, k)] = [k |-> k, v |-> v]]
    ELSE Append(d, [k |-> k, v |-> v])
\* del d[k]
Del(d, k) == SelectSeq(d, LAMBDA e : e.k # k)
\* list(d.values())
Values(d) == [i \in 1..Len(d) |-> d[i].v]

RECURSIVE SumSeq(_)
SumSeq(s) == IF s = <<>> THEN 0 ELSE s[1] + SumSeq(Tail(s))

RECURSIVE SetToList(_)
\* list(a_set): the lists the call may return.  The order in which a set
\* object yields its elements depends on the hash seed of the process and on
\* the history of the object (two equal sets may yield two orders), so every
\* order of the elements is a possible result.
SetToList(S) ==
    IF S = {} THEN {<<>>}
    ELSE UNION {{<<x>> \o rest : rest \in SetToList(S \ {x})} : x \in S}

RECURSIVE ChoiceSeqs(_)
\* The sequences that take their i-th element from the i-th set of choices.
ChoiceSeqs(choices) ==
    IF choices = <<>> THEN {<<>>}
    ELSE {<<h>> \o t : h \in Head(choices), t \in ChoiceSeqs(Tail(choices))}

(***************************************************************************)
(* Category Aggregator: CategoryProcessor.process_data_list (spec 4.1)     *)
(***************************************************************************)
NewCategoryInfo(c) ==
    [category_name |-> c, url |-> <<>>, faculty_count |-> 0, department_count |-> 0,
     article_count |-> 0, faculty |-> {}, departments |-> {},
     tc_count |-> 0, tc_list |-> <<>>, doi_list |-> {}]

NewFacultyInfo(n) ==
    [name |-> n, article_count |-> 0, total_citations |-> 0, doi_list |-> {}]

\* The aggregates of a freshly constructed CategoryProcessor.
EmptyAggregates ==
    [category_data |-> <<>>, faculty_stats |-> <<>>, global_faculty_stats |-> <<>>,
     article_stats |-> <<>>, article_stats_obj |-> <<>>, warnings |-> <<>>]

\* MalformedRecord (spec 7): no identifier, no category tag or no author.
IsMalformed(r) == r.id = NoId \/ r.cats = <<>> \/ r.authors = <<>>

\* One record counted for one faculty entry.
CountArticle(info, r) ==
    [info EXCEPT !.article_count = @ + 1,
                 !.total_citations = @ + r.cites,
                 !.doi_list = @ \cup {r.id}]

RECURSIVE AddAuthors(_, _, _)
\* Locate-or-create the FacultyStats entry of each author of r in the map fs
\* of one category, and count the record for it.
AddAuthors(fs, authors, r) ==
    IF authors = <<>> THEN fs
    ELSE LET a == Head(authors)
             old == IF Has(fs, a) THEN Get(fs, a) ELSE NewFacultyInfo(a)
         IN  AddAuthors(Put(fs, a, CountArticle(old, r)), Tail(authors), r)

\* The contribution of record r to category c: the CategoryInfo and the
\* category's faculty map are located or created and the record is counted.
ContributeToCategory(st, r, c) ==
    LET old == IF Has(st.category_data, c) THEN Get(st.category_data, c)
               ELSE NewCategoryInfo(c)
        info == [old EXCEPT
                   !.article_count = @ + 1,
                   !.tc_list = Append(@, r.cites),
                   !.tc_count = @ + r.cites,
                   !.doi_list = @ \cup {r.id},
                   !.faculty = @ \cup Range(r.authors),
                   !.departments = @ \cup
                       ({DeptOf[a] : a \in Range(r.authors)} \ {NoDept})]
        fs == IF Has(st.faculty_stats, c) THEN Get(st.faculty_stats, c) ELSE <<>>
        arts == IF Has(st.article_stats, c) THEN Get(st.article_stats, c) ELSE <<>>
    IN  [st EXCEPT
           !.category_data = Put(@, c, info),
           !.faculty_stats = Put(@, c, AddAuthors(fs, r.authors, r)),
           !.article_stats =
               Put(@, c, Put(arts, r.id, [doi |-> r.id, tc_count |-> r.cites,
                                           faculty_members |-> Range(r.authors)]))]

\* A slip: the repeated-identifier guard is missing.
ProcessCategoryUnguarded(st, r, c) == ContributeToCategory(st, r, c)
\* A record whose identifier the category has counted already contributes
\* nothing more to it (spec 4.1).
ProcessCategory(st, r, c) ==
    IF Has(st.category_data, c) /\ r.id \in Get(st.category_data, c).doi_list
    THEN st
    ELSE ContributeToCategory(st, r, c)

RECURSIVE ProcessCategories(_, _, _)
ProcessCategories(st, r, cats) ==
    IF cats = <<>> THEN st
    ELSE ProcessCategories(ProcessCategory(st, r, Head(cats)), r, Tail(cats))

RECURSIVE AddGlobalAuthors(_, _, _)
\* GlobalFacultyStats (spec 3): one entry per faculty name, across categories;
\* an article is counted once per name.
AddGlobalAuthors(g, authors, r) ==
    IF authors = <<>> THEN g
    ELSE LET a == Head(authors)
             old == IF Has(g, a) THEN Get(g, a) ELSE NewFacultyInfo(a)
             new == IF r.id \in old.doi_list THEN old ELSE CountArticle(old, r)
         IN  AddGlobalAuthors(Put(g, a, new), Tail(authors), r)

\* A well-formed record: its categories, the global entries of its authors,
\* its article entry.
AggregateRecord(st, r) ==
    LET byCat == ProcessCategories(st, r, r.cats)
    IN  [byCat EXCEPT
           !.global_faculty_stats = AddGlobalAuthors(@, r.authors, r),
           !.article_stats_obj =
               IF Has(@, r.id) THEN @
               ELSE Put(@, r.id, [doi |-> r.id, tc_count |-> r.cites, url |-> <<>>])]

\* A slip: no check of the required fields.
ProcessRecordUnchecked(st, r) == AggregateRecord(st, r)
\* One record of the batch: a malformed one adds a diagnostic and nothing else
\* (spec 4.5, 7).
ProcessRecord(st, r) ==
    IF IsMalformed(r)
    THEN [st EXCEPT !.warnings = Append(@, [category |-> "MalformedRecord", id |-> r.id])]
    ELSE AggregateRecord(st, r)

RECURSIVE ProcessFrom(_, _)
ProcessFrom(st, records) ==
    IF records = <<>> THEN st
    ELSE ProcessFrom(ProcessRecord(st, Head(records)), Tail(records))

\* process_data_list(data) on a fresh CategoryProcessor.
process_data_list(records) == ProcessFrom(EmptyAggregates, records)

(***************************************************************************)
(* Sharded aggregation (spec 5): partial maps of two shards combined with  *)
(* the union semantics of the Refiner (counts sum, sets union)             *)
(***************************************************************************)
\* The records of a batch at the positions S, in batch order.
Shard(records, S) ==
    LET RECURSIVE Pick(_)
        Pick(i) == IF i > Len(records) THEN <<>>
                   ELSE (IF i \in S THEN <<records[i]>> ELSE <<>>) \o Pick(i + 1)
    IN  Pick(1)

\* A slip in the combination: the second shard's entry replaces the first's.
CombineCategoryInfoReplacing(a, b) == b
\* Two partial CategoryInfo of one category: counts summed, citation lists
\* appended, sets united.
CombineCategoryInfo(a, b) ==
    [a EXCEPT !.article_count = @ + b.article_count,
              !.tc_count = @ + b.tc_count,
              !.tc_list = @ \o b.tc_list,
              !.faculty_count = @ + b.faculty_count,
              !.department_count = @ + b.department_count,
              !.faculty = @ \cup b.faculty,
              !.departments = @ \cup b.departments,
              !.doi_list = @ \cup b.doi_list]

\* Two partial FacultyStats entries of one name, merged as the Refiner merges.
CombineFacultyInfo(a, b) ==
    [a EXCEPT !.article_count = @ + b.article_count,
              !.total_citations = @ + b.total_citations,
              !.doi_list = @ \cup b.doi_list]

RECURSIVE CombineCategoryData(_, _)
\* The partial category_data b merged into a, key by key.
CombineCategoryData(a, b) ==
    IF b = <<>> THEN a
    ELSE LET e == Head(b)
         IN  CombineCategoryData(
                 Put(a, e.k, IF Has(a, e.k) THEN CombineCategoryInfo(Get(a, e.k), e.v)
                             ELSE e.v),
                 Tail(b))

RECURSIVE CombineFacultyMap(_, _)
\* The partial faculty map b of one category merged into a, name by name.
CombineFacultyMap(a, b) ==
    IF b = <<>> THEN a
    ELSE LET e == Head(b)
         IN  CombineFacultyMap(
                 Put(a, e.k, IF Has(a, e.k) THEN CombineFacultyInfo(Get(a, e.k), e.v)
                             ELSE e.v),
                 Tail(b))

RECURSIVE CombineFacultyStats(_, _)
\* The partial faculty_stats b merged into a, category by category.
CombineFacultyStats(a, b) ==
    IF b = <<>> THEN a
    ELSE LET e == Head(b)
         IN  CombineFacultyStats(
                 Put(a, e.k, IF Has(a, e.k) THEN CombineFacultyMap(Get(a, e.k), e.v)
                             ELSE e.v),
                 Tail(b))

\* Each shard aggregated on its own, the two results combined.
AggregateSharded(records, S) ==
    LET one == process_data_list(Shard(records, S))
        two == process_data_list(Shard(records, (1..Len(records)) \ S))
    IN  [category_data |-> CombineCategoryData(one.category_data, two.category_data),
         faculty_stats |-> CombineFacultyStats(one.faculty_stats, two.faculty_stats)]

(***************************************************************************)
(* Name Identity Resolver: FacultyPostprocessor.remove_near_duplicates      *)
(* (spec 4.2; orchestrator docstring: "removes near-duplicate faculty       *)
(* entries" of every category's faculty set and builds name_variations)     *)
(***************************************************************************)
\* Every distinct faculty name observed in some category.
Vocabulary(cd) == UNION {cd[i].v.faculty : i \in 1..Len(cd)}

RECURSIVE Closure(_, _, _)
\* The names of vocab linked to a name of T by a chain of "same identity"
\* judgements (transitive closure, spec 4.2).
Closure(T, vocab, judged) ==
    LET next == T \cup {m \in vocab : \E t \in T : {t, m} \in judged}
    IN  IF next = T THEN T ELSE Closure(next, vocab, judged)

\* The canonical representative of a group: its longest spelling.
Longest(G) == CHOOSE n \in G : \A m \in G : NameLen[m] <= NameLen[n]

\* The mapping from every observed name to its group's canonical name.
Resolve(vocab, judged) == [n \in vocab |-> Longest(Closure({n}, vocab, judged))]

\* The canonical name of n under the mapping nv; a name the mapping does not
\* know stands for itself.
Canon(nv, n) == IF n \in DOMAIN nv THEN nv[n] ELSE n

MapValues(d, F(_)) == [i \in 1..Len(d) |-> [k |-> d[i].k, v |-> F(d[i].v)]]

remove_near_duplicates(cd, judged) ==
    LET nv == Resolve(Vocabulary(cd), judged)
        dedup(info) == [info EXCEPT !.faculty = {Canon(nv, n) : n \in @}]
    IN  [name_variations |-> nv, category_data |-> MapValues(cd, dedup)]

(***************************************************************************)
(* Relationship Tracker: FacultyDepartmentManager (spec 4.3)               *)
(***************************************************************************)
update_faculty_count(cd) ==
    MapValues(cd, LAMBDA info : [info EXCEPT !.faculty_count = Cardinality(info.faculty)])

update_department_count(cd) ==
    MapValues(cd, LAMBDA info :
                    [info EXCEPT !.department_count = Cardinality(info.departments)])

(***************************************************************************)
(* Statistics Refiner                                                      *)
(***************************************************************************)
\* Merge of two entries: counts sum, identifier sets union (spec 3, 4.4).
MergeInfo(into, from) ==
    [into EXCEPT !.article_count = @ + from.article_count,
                 !.total_citations = @ + from.total_citations,
                 !.doi_list = @ \cup from.doi_list]

\* FacultyStats.refine_faculty_stats(faculty_name_unrefined, name_variations)
\* on the map fs of one category (spec 4.4): a variant is merged into the
\* canonical entry and its key removed; without a canonical entry it is
\* renamed in place; a canonical name is left alone.
FacultyStats_refine(fs, n, nv) ==
    LET canon == Canon(nv, n)
    IN  IF ~Has(fs, n) \/ canon = n THEN fs
        ELSE IF Has(fs, canon)
             THEN Put(Del(fs, n), canon, MergeInfo(Get(fs, canon), Get(fs, n)))
             ELSE [fs EXCEPT ![IndexOf(fs, n)] =
                        [k |-> canon, v |-> [Get(fs, n) EXCEPT !.name = canon]]]

\* A plausible slip: the loop over the members is left after its first pass.
faculty_members_first_only(fs) == SubSeq(Keys(fs), 1, IF Len(fs) = 0 THEN 0 ELSE 1)
\* faculty_members = list(faculty_stats[category].faculty_stats.keys())
faculty_members(fs) == Keys(fs)

RECURSIVE RefineMembers(_, _, _)
\* for faculty_member in faculty_members: faculty_stats[category].refine_faculty_stats(...)
RefineMembers(fs, members, nv) ==
    IF members = <<>> THEN fs
    ELSE RefineMembers(FacultyStats_refine(fs, Head(members), nv), Tail(members), nv)

\* A slip: the loop over the categories is left after its first pass.
categories_first_only(cd) == SubSeq(Keys(cd), 1, IF Len(cd) = 0 THEN 0 ELSE 1)
\* categories = list(category_dict.keys())
categories(cd) == Keys(cd)

RECURSIVE RefineCategories(_, _, _)
\* for category in categories: ...; faculty_stats[category] of a category the
\* map lacks raises KeyError, which ends the loop with the earlier categories
\* refined.
RefineCategories(fstats, remaining, nv) ==
    IF remaining = <<>> THEN fstats
    ELSE LET c == Head(remaining)
         IN  IF ~Has(fstats, c) THEN fstats
             ELSE LET fs == Get(fstats, c)
                  IN  RefineCategories(
                          Put(fstats, c, RefineMembers(fs, faculty_members(fs), nv)),
                          Tail(remaining), nv)

RECURSIVE RefineCalls(_, _, _)
\* The calls faculty_stats[category].refine_faculty_stats(faculty_name_unrefined
\* = faculty_member, ...) the two loops make, in order.
RefineCalls(fstats, remaining, nv) ==
    IF remaining = <<>> THEN <<>>
    ELSE LET c == Head(remaining)
         IN  IF ~Has(fstats, c) THEN <<>>
             ELSE LET fs == Get(fstats, c)
                      members == faculty_members(fs)
                  IN  [i \in 1..Len(members) |->
                          [category |-> c, faculty_name_unrefined |-> members[i]]]
                      \o RefineCalls(Put(fstats, c, RefineMembers(fs, members, nv)),
                                     Tail(remaining), nv)

\* CategoryDataOrchestrator.refine_faculty_stats
refine_faculty_stats(fstats, nv, cd) == RefineCategories(fstats, categories(cd), nv)

\* Whether refine_faculty_stats raises KeyError.
RefineRaises(fstats, cd) == \E c \in KeySet(cd) : ~Has(fstats, c)

(***************************************************************************)
(* addUrl: the URL slug of a category name                                 *)
(***************************************************************************)
\* The characters of each category name.
CatChars ==
    [c \in Cats |-> IF c = "CS" THEN <<"C", "S">>
                    ELSE <<"P", "u", "r", "e", " ", "M", "a", "t", "h">>]

Uppers == <<"A", "B", "C", "D", "E", "F", "G", "H", "I", "J", "K", "L", "M",
            "N", "O", "P", "Q", "R", "S", "T", "U", "V", "W", "X", "Y", "Z">>
Lowers == <<"a", "b", "c", "d", "e", "f", "g", "h", "i", "j", "k", "l", "m",
            "n", "o", "p", "q", "r", "s", "t", "u", "v", "w", "x", "y", "z">>
Digits == {"0", "1", "2", "3", "4", "5", "6", "7", "8", "9"}

\* The upper-case letters of Latin-1 outside ASCII and their lower-case forms.
Latin1Uppers == <<"À", "Á", "Â", "Ã", "Ä", "Å", "Æ", "Ç", "È", "É",
                  "Ê", "Ë", "Ì", "Í", "Î", "Ï", "Ð", "Ñ", "Ò", "Ó",
                  "Ô", "Õ", "Ö", "Ø", "Ù", "Ú", "Û", "Ü", "Ý", "Þ">>
Latin1Lowers == <<"à", "á", "â", "ã", "ä", "å", "æ", "ç", "è", "é",
                  "ê", "ë", "ì", "í", "î", "ï", "ð", "ñ", "ò", "ó",
                  "ô", "õ", "ö", "ø", "ù", "ú", "û", "ü", "ý", "þ">>

\* category.lower() on one character of Latin-1: the letters A-Z and the
\* upper-case letters of Latin-1 have a lower-case form, every other character
\* is left as it is.
LowerChar(ch) ==
    LET uppers == Uppers \o Latin1Uppers
        lowers == Lowers \o Latin1Lowers
    IN  IF \E i \in 1..Len(uppers) : uppers[i] = ch
        THEN lowers[CHOOSE i \in 1..Len(uppers) : uppers[i] = ch]
        ELSE ch
Lower(s) == [i \in 1..Len(s) |-> LowerChar(s[i])]

\* A character outside the class [^A-Za-z0-9-].
UrlChar(ch) == ch \in Range(Uppers) \cup Range(Lowers) \cup Digits \cup {"-"}

\* The two character classes addUrl substitutes: "[^A-Za-z0-9-]" and "-".
InClass(class, ch) == IF class = "-" THEN ch = "-" ELSE ~UrlChar(ch)

RECURSIVE DropWhile(_, _)
DropWhile(s, class) ==
    IF s # <<>> /\ InClass(class, Head(s)) THEN DropWhile(Tail(s), class) ELSE s

RECURSIVE SubRuns(_, _)
\* re.sub of every maximal run of characters of the class by one hyphen.
SubRuns(s, class) ==
    IF s = <<>> THEN <<>>
    ELSE IF InClass(class, Head(s)) THEN <<"-">> \o SubRuns(DropWhile(s, class), class)
    ELSE <<Head(s)>> \o SubRuns(Tail(s), class)

RECURSIVE DropLast(_, _)
DropLast(s, class) ==
    IF s # <<>> /\ InClass(class, s[Len(s)])
    THEN DropLast(SubSeq(s, 1, Len(s) - 1), class) ELSE s

\* url.strip("-")
StripHyphens(s) == DropLast(DropWhile(s, "-"), "-")

\* A slip in addUrl: the leading and trailing hyphens are not stripped.
SlugUnstripped(chars) == SubRuns(SubRuns(Lower(chars), "[^A-Za-z0-9-]"), "-")
\* The three steps of addUrl on the characters of a name.
Slug(chars) == StripHyphens(SubRuns(SubRuns(Lower(chars), "[^A-Za-z0-9-]"), "-"))

addUrl(cd) ==
    [i \in 1..Len(cd) |->
        [k |-> cd[i].k, v |-> [cd[i].v EXCEPT !.url = Slug(CatChars[cd[i].k])]]]

\* The characters category names are made of: a letter, a digit, the hyphen,
\* the blank and a letter outside ASCII.
NameAlphabet == {"A", "7", "-", " ", "É"}
\* The category dictionaries handed to addUrl, the key of a category being the
\* characters of its name: empty, one category of any name, or that category
\* and then one of Cats.
UrlDicts ==
    LET entry(name) == [k |-> name, v |-> [url |-> <<>>]]
        names == SeqsUpTo(NameAlphabet, MaxNameLen)
    IN  {<<>>} \cup {<<entry(n)>> : n \in names}
               \cup {<<entry(n), entry(CatChars[c])>> : n \in names, c \in Cats}

\* addUrl on a dictionary keyed by the characters of the category names.
addUrlByName(tempDict) ==
    [i \in 1..Len(tempDict) |->
        [k |-> tempDict[i].k, v |-> [tempDict[i].v EXCEPT !.url = Slug(tempDict[i].k)]]]

(***************************************************************************)
(* Serialization: what each serialize_and_save_* hands to _write_to_json   *)
(* (extend = False: the file receives exactly that data)                   *)
(***************************************************************************)
\* _clean_category_data on one CategoryInfo: to_dict without the excluded
\* keys, sets converted to lists, tc_list deleted.  The results possible, one
\* for each order list(doi_list) may take.
CleanCategoryInfo(info) ==
    {[category_name |-> info.category_name, url |-> info.url,
      faculty_count |-> info.faculty_count, department_count |-> info.department_count,
      article_count |-> info.article_count, tc_count |-> info.tc_count,
      doi_list |-> dois] : dois \in SetToList(info.doi_list)}

\* FacultyInfo.to_dict / GlobalFacultyStats.to_dict: the results possible.
FacultyInfoDict(info) == {[info EXCEPT !.doi_list = dois] : dois \in SetToList(info.doi_list)}

RECURSIVE Flatten(_)
\* [x for inner in outer for x in inner]
Flatten(lists) == IF lists = <<>> THEN <<>> ELSE Head(lists) \o Flatten(Tail(lists))

\* What serialize_and_save_data may write: the cleaned values of
\* category_data in key order.
CategoryDataOut(cd) == ChoiceSeqs([i \in 1..Len(cd) |-> CleanCategoryInfo(cd[i].v)])

\* What serialize_and_save_faculty_stats may write: the faculty dicts of every
\* category, flattened.
FacultyStatsOut(fstats) ==
    {Flatten(percat) :
        percat \in ChoiceSeqs([i \in 1..Len(fstats) |->
                      ChoiceSeqs([j \in 1..Len(fstats[i].v) |->
                                    FacultyInfoDict(fstats[i].v[j].v)])])}

\* convert_sets_to_lists on the to_dict of the article map of one category:
\* the faculty_members set of each article becomes a list.
ArticleMapOut(m) ==
    {[j \in 1..Len(m) |-> [k |-> m[j].k, v |-> vs[j]]] :
        vs \in ChoiceSeqs([j \in 1..Len(m) |->
                  {[m[j].v EXCEPT !.faculty_members = members] :
                      members \in SetToList(m[j].v.faculty_members)}])}

\* What serialize_and_save_article_stats may write.
ArticleStatsOut(arts) == ChoiceSeqs([i \in 1..Len(arts) |-> ArticleMapOut(arts[i].v)])

\* generate_short_uuid_as_url: the url of an article is a uuid derived from
\* its key.
ArticleStatsObjOut(objs) ==
    [i \in 1..Len(objs) |-> [objs[i].v EXCEPT !.url = <<"uuid", objs[i].k>>]]

\* What serialize_and_save_global_faculty_stats may write.
GlobalFacultyStatsOut(g) == ChoiceSeqs([i \in 1..Len(g) |-> FacultyInfoDict(g[i].v)])

NothingSaved ==
    [category_data |-> <<>>, faculty_stats |-> <<>>, article_stats |-> <<>>,
     article_stats_obj |-> <<>>, global_faculty_stats |-> <<>>]

(***************************************************************************)
(* PipelineRunner.run_pipeline: the filter of the fetched articles          *)
(***************************************************************************)
Dois == {"10.1/x", "10.1/y"}
\* The value get_attributes gives when it finds no DOI.
NoDoi == "None"
\* A fetched article, as get_attributes(article, [CROSSREF_DOI]) sees it: the
\* pair (found, value) under CROSSREF_DOI.
Articles == [found : BOOLEAN, doi : Dois \cup {NoDoi}]

\* A slip of precedence: (doi[0] and doi[1]) not in existing_dois.
KeepsArticleMisgrouped(article, existing) ==
    (IF article.found THEN article.doi ELSE "False") \notin existing
\* if doi[0] and doi[1] not in existing_dois
KeepsArticle(article, existing) == article.found /\ article.doi \notin existing

RECURSIVE FilterLoop(_, _, _)
\* for article in data: keep it or count it as already existing.
FilterLoop(acc, articles, existing) ==
    IF articles = <<>> THEN acc
    ELSE FilterLoop(
            IF KeepsArticle(Head(articles), existing)
            THEN [acc EXCEPT !.filtered_data = Append(@, Head(articles))]
            ELSE [acc EXCEPT !.already_existing_count = @ + 1],
            Tail(articles), existing)

\* data[: n] of a Python list.
PySlice(s, n) ==
    IF n >= 0 THEN SubSeq(s, 1, IF n < Len(s) THEN n ELSE Len(s))
    ELSE SubSeq(s, 1, IF Len(s) + n > 0 THEN Len(s) + n ELSE 0)

\* What the operator may type at "How many articles would you like to process?"
\* isint tells whether int(res) succeeds, n is its value.
SliceAnswers ==
    {[isint |-> TRUE, n |-> k] : k \in -1..MaxSlice} \cup {[isint |-> FALSE, n |-> 0]}

(***************************************************************************)
(* DataClassFactory: the class-level registry of data classes              *)
(***************************************************************************)
\* The values of the DataClassTypes members used as registry keys.
DataClassTypes == {"category_info", "faculty_stats"}
\* The classes handed to the register_dataclass decorator.
DataClasses == {"CategoryInfo", "CategoryInfoV2", "FacultyStats"}
\* The DataClassFactory instances the calls are made on.
Factories == {"factory_1", "factory_2"}
\* The **init_params of a get_dataclass call: none, or one keyword.
InitParamChoices == {<<>>, <<[k |-> "category_name", v |-> "CS"]>>}
PyNone == "<None>"

\* A slip in the decorator: an existing registration is kept.
register_dataclass_keep_first(reg, t, cls) == IF Has(reg, t) THEN reg ELSE Put(reg, t, cls)
\* cls._registry[dataclass_type.value] = data_class
register_dataclass(reg, t, cls) == Put(reg, t, cls)

\* cls._registry.get(dataclass_type.value)
RegistryGet(reg, t) == IF Has(reg, t) THEN Get(reg, t) ELSE PyNone
\* not data_class: None is falsy, a class object is truthy.
Falsy(data_class) == data_class = PyNone

\* get_dataclass on the registry reg, n instances having been created before:
\* ValueError, or a new instance on which set_params was called when
\* init_params is not empty.
get_dataclass(reg, t, init_params, n) ==
    LET data_class == RegistryGet(reg, t)
    IN  IF Falsy(data_class)
        THEN [raised |-> "ValueError"]
        ELSE [raised |-> "",
              instance |-> [cls |-> data_class, id |-> n + 1,
                            set_params_called |-> init_params # <<>>,
                            params |-> init_params]]

\* dataclass_type.value in cls._registry
is_registered(reg, t) == Has(reg, t)

(***************************************************************************)
(* convert_sets_to_lists: Python values as tagged records                  *)
(*   [t |-> "atom", v], [t |-> "set", elems], [t |-> "list", items],       *)
(*   [t |-> "dict", entries]                                               *)
(***************************************************************************)
PyAtom(x) == [t |-> "atom", v |-> x]
PySet(S) == [t |-> "set", elems |-> S]
PyList(items) == [t |-> "list", items |-> items]
PyDict(entries) == [t |-> "dict", entries |-> entries]

\* The values without a dictionary at their top: a string, sets, and lists
\* holding a string, a set, or a dictionary with a set.
LeafValues ==
    {PyAtom("x"), PySet({}), PySet({"x"}), PySet({"x", "y"}),
     PyList(<<PyAtom("x")>>), PyList(<<PySet({"x"})>>),
     PyList(<<PyDict(<<[k |-> "inner", v |-> PySet({"x"})]>>)>>)}

RECURSIVE NestedValues(_)
\* The values nested at most depth dictionaries deep.
NestedValues(depth) ==
    IF depth = 0 THEN LeafValues
    ELSE LeafValues \cup {PyDict(<<[k |-> "inner", v |-> x]>>) : x \in NestedValues(depth - 1)}

DictKeyNames == <<"a", "b", "c", "d">>
\* The dictionaries handed to convert_sets_to_lists: the first n keys of
\* DictKeyNames, n up to maxKeys, each with any of the values nested at most
\* depth dictionaries deep.
InputDicts(maxKeys, depth) ==
    LET values == NestedValues(depth)
    IN  UNION {{PyDict([i \in 1..n |-> [k |-> DictKeyNames[i], v |-> vs[i]]]) :
                   vs \in [1..n -> values]} : n \in 0..maxKeys}

RECURSIVE convert_sets_to_lists(_)
\* for key, value in data_dict.items(): a set becomes list(value), a list is
\* skipped (continue), a dict is converted recursively, anything else is left.
\* The dictionaries the call may return, one for each order the list(value)
\* calls may take.
convert_sets_to_lists(data_dict) ==
    LET entries == data_dict.entries
        converted(value) ==
            IF value.t = "set"
            THEN {PyList([j \in 1..Len(l) |-> PyAtom(l[j])]) : l \in SetToList(value.elems)}
            ELSE IF value.t = "list" THEN {value}
            ELSE IF value.t = "dict" THEN convert_sets_to_lists(value)
            ELSE {value}
    IN  {PyDict([i \in 1..Len(entries) |-> [k |-> entries[i].k, v |-> vs[i]]]) :
            vs \in ChoiceSeqs([i \in 1..Len(entries) |-> converted(entries[i].v)])}

(***************************************************************************)
(* ArticleDatabase.insert_articles                                         *)
(***************************************************************************)
\* The article identifiers that key the mapping handed to insert_articles.
ArticleKeys == {"a1", "a2", "a3"}
\* The article documents: a title, a citation count, and the '_id' field the
\* document came with ("" when it has none).
ArticleDocs == [title : {"T1", "T2"}, cites : {0, 5}, _id : {""}]
\* The mappings from identifier to document, as insertion-ordered dicts.
ArticleMappings ==
    LET keyseqs == {ks \in SeqsUpTo(ArticleKeys, MaxArticles) :
                       \A i, j \in 1..Len(ks) : ks[i] = ks[j] => i = j}
    IN  UNION {{[i \in 1..Len(ks) |-> [k |-> ks[i], v |-> docs[i]]] :
                   docs \in [1..Len(ks) -> ArticleDocs]} : ks \in keyseqs}

\* The outcome of one call on the database class: the method, the exception
\* it raised ("" when it returned), and the calls it made of insert_data and
\* of insert_item, each with the argument handed over.
NoInsert == [insert_data_calls |-> <<>>, insert_item_calls |-> <<>>]

\* The parameters DatabaseWrapper.__init__ takes beside self: none positional,
\* two keyword-only.
WrapperPositionalParams == 0
WrapperKeywordParams == {"db_name", "collection_name"}

\* A call with n positional arguments and the keywords kwargs of a function
\* taking at most maxPositional positional arguments and the keyword-only
\* parameters keywordOnly (all required) raises TypeError.
PositionalCallRaisesTypeError(n, kwargs, maxPositional, keywordOnly) ==
    n > maxPositional \/ ~(kwargs \subseteq keywordOnly) \/ ~(keywordOnly \subseteq kwargs)

\* ArticleDatabase(db_name, collection_name): __init__ hands its two arguments
\* positionally to DatabaseWrapper.__init__, whose parameters are keyword-only:
\* the call raises TypeError, before any connection is made.
SuperInitRaises ==
    PositionalCallRaisesTypeError(2, {}, WrapperPositionalParams, WrapperKeywordParams)

\* insert_articles(article_data): the parameter is first rebound to an empty
\* list, so article_data.items() is looked up on a list and raises
\* AttributeError before the loop and before insert_data.  Were the local a
\* dict, each value would get its key as '_id' and the documents would be
\* handed to insert_data in one call.
insert_articles(article_data) ==
    LET rebound == [t |-> "list", items |-> <<>>]
    IN  IF rebound.t # "dict"
        THEN [op |-> "insert_articles", raised |-> "AttributeError"] @@ NoInsert
        ELSE [op |-> "insert_articles", raised |-> "",
              insert_data_calls |->
                 <<[i \in 1..Len(article_data) |->
                      [article_data[i].v EXCEPT !._id = article_data[i].k]]>>,
              insert_item_calls |-> <<>>]

\* insert_article(identifier, article): the document gets the identifier as
\* '_id' and is handed to insert_item.
insert_article(identifier, article) ==
    [op |-> "insert_article", raised |-> "", insert_data_calls |-> <<>>,
     insert_item_calls |-> <<[article EXCEPT !._id = identifier]>>]

(***************************************************************************)
(* State                                                                   *)
(***************************************************************************)
VARIABLES
    data,                   \* orchestrator.data: the classified batch
    judged,                 \* the pairs the similarity policy judges the same person
    pc,                     \* index in RunOrder of the next call; 0 after an exception
    log,                    \* the calls made so far, in order
    category_data,          \* category_processor.category_data
    faculty_stats,          \* category_processor.faculty_stats
    global_faculty_stats,   \* category_processor.global_faculty_stats
    article_stats,          \* category_processor.article_stats
    article_stats_obj,      \* category_processor.article_stats_obj
    name_variations,        \* faculty_postprocessor.name_variations
    warnings,               \* warning_manager's collected diagnostics
    saved,                  \* the data written to each output file
    p_pc,                   \* run_pipeline's position
    fetched,                \* the articles the data collection returned
    existing_dois,          \* db.get_dois()
    debug,                  \* PipelineRunner.debug
    filtered_data,          \* run_pipeline's filtered_data
    already_existing_count, \* run_pipeline's already_existing_count
    batch,                  \* run_pipeline's data after the filter
    sliced,                 \* <<n>> when the debug prompt sliced data[:n], else <<>>
    handed,                 \* the batch run_classification received
    error,                  \* the exception that ended run_pipeline, "" when none
    orchestrator,           \* "none", "constructed" once _create_orchestrator returned,
                            \* "finished" once its run_orchestrator returned
    db_calls,               \* the arguments of each db.run_all_process call
    registry,               \* DataClassFactory._registry (class-level)
    reg_log,                \* the register_dataclass calls made so far
    made,                   \* the number of instances the factory has created
    fcall,                  \* the last call on the factory, with its outcome
    conv_in,                \* the dictionary handed to convert_sets_to_lists
    conv_out,               \* <<>> or <<d>>, d the dictionary it returned
    url_data,               \* the category dictionary addUrl works on
    url_done,               \* addUrl has returned
    db_inst,                \* the ArticleDatabase instance: "none", "new" (about to be
                            \* constructed), "raised" (__init__ raised), "instance"
    db_in,                  \* the mapping handed to insert_articles
    db_out                  \* <<>> or <<outcome>> of the call made on the database

orch_vars == <<data, judged, pc, log, category_data, faculty_stats,
               global_faculty_stats, article_stats, article_stats_obj, name_variations,
               warnings, saved>>

\* run_pipeline's state after the return of run_classification.
tail_vars == <<error, orchestrator, db_calls>>

pipe_vars == <<p_pc, fetched, existing_dois, debug, filtered_data,
               already_existing_count, batch, sliced, handed, tail_vars>>

factory_vars == <<registry, reg_log, made, fcall>>

convert_vars == <<conv_in, conv_out>>

\* The state of the components outside the orchestrator and the pipeline.
url_vars == <<url_data, url_done>>

db_vars == <<db_inst, db_in, db_out>>

util_vars == <<factory_vars, convert_vars, url_vars, db_vars>>

vars == <<orch_vars, pipe_vars, util_vars>>

aggregates == <<category_data, faculty_stats, global_faculty_stats, article_stats,
                article_stats_obj>>

\* A slip in refine_faculty_sets: the counts are updated before the near
\* duplicates are removed.
RunOrderCountFirst ==
    <<"process_data_list",
      "update_faculty_count", "update_department_count", "remove_near_duplicates",
      "refine_faculty_stats",
      "serialize_and_save_data", "serialize_and_save_faculty_stats",
      "serialize_and_save_article_stats", "serialize_and_save_article_stats_obj",
      "serialize_and_save_global_faculty_stats">>
\* A slip in run_orchestrator: the statistics are refined before the names are
\* resolved.
RunOrderRefineFirst ==
    <<"process_data_list",
      "refine_faculty_stats",
      "remove_near_duplicates", "update_faculty_count", "update_department_count",
      "serialize_and_save_data", "serialize_and_save_faculty_stats",
      "serialize_and_save_article_stats", "serialize_and_save_article_stats_obj",
      "serialize_and_save_global_faculty_stats">>
\* A slip in run_orchestrator: the faculty statistics are written before they
\* are refined.
RunOrderSaveEarly ==
    <<"process_data_list",
      "remove_near_duplicates", "update_faculty_count", "update_department_count",
      "serialize_and_save_faculty_stats",
      "refine_faculty_stats",
      "serialize_and_save_data",
      "serialize_and_save_article_stats", "serialize_and_save_article_stats_obj",
      "serialize_and_save_global_faculty_stats">>
\* The calls of run_orchestrator in program order, those of refine_faculty_sets
\* and _save_all_results inlined.
RunOrder ==
    <<"process_data_list",
      "remove_near_duplicates", "update_faculty_count", "update_department_count",
      "refine_faculty_stats",
      "serialize_and_save_data", "serialize_and_save_faculty_stats",
      "serialize_and_save_article_stats", "serialize_and_save_article_stats_obj",
      "serialize_and_save_global_faculty_stats">>

\* run_orchestrator has returned.
Done == pc = Len(RunOrder) + 1
\* The call `step` is the next one.
At(step) == pc \in 1..Len(RunOrder) /\ RunOrder[pc] = step
\* The call `step` has returned.
Called(step) == step \in Range(log)

Returns(step) == pc' = pc + 1 /\ log' = Append(log, step)

\* The pipeline before run_pipeline is called.
PipelineIdle ==
    /\ p_pc = "idle"
    /\ fetched = <<>>
    /\ existing_dois = {}
    /\ debug = FALSE
    /\ filtered_data = <<>>
    /\ already_existing_count = 0
    /\ batch = <<>>
    /\ sliced = <<>>
    /\ handed = <<>>
    /\ error = ""
    /\ orchestrator = "none"
    /\ db_calls = <<>>

\* No call has been made on the factory: the registry is the empty dict of the
\* class body.
FactoryIdle ==
    /\ registry = <<>>
    /\ reg_log = <<>>
    /\ made = 0
    /\ fcall = [op |-> "none"]

\* convert_sets_to_lists has not been called.
ConvertIdle ==
    /\ conv_in = PyDict(<<>>)
    /\ conv_out = <<>>

\* addUrl has not been called on a dictionary of its own.
UrlIdle ==
    /\ url_data = <<>>
    /\ url_done = FALSE

\* insert_articles has not been called.
DatabaseIdle ==
    /\ db_inst = "none"
    /\ db_in = <<>>
    /\ db_out = <<>>

UtilIdle == FactoryIdle /\ ConvertIdle /\ UrlIdle /\ DatabaseIdle

\* CategoryDataOrchestrator.__init__: fresh CategoryProcessor and
\* FacultyPostprocessor, nothing written.
Constructed ==
    /\ pc = 1
    /\ log = <<>>
    /\ category_data = <<>>
    /\ faculty_stats = <<>>
    /\ global_faculty_stats = <<>>
    /\ article_stats = <<>>
    /\ article_stats_obj = <<>>
    /\ name_variations = <<>>
    /\ warnings = <<>>
    /\ saved = NothingSaved

\* An orchestrator constructed for some classified batch, the similarity
\* policy having some judgement of the names.
Init ==
    /\ data \in SeqsUpTo(RecordPool, MaxRecords)
    /\ judged \in SUBSET NamePairs
    /\ Constructed
    /\ PipelineIdle
    /\ UtilIdle

(***************************************************************************)
(* run_orchestrator, call by call                                          *)
(***************************************************************************)
ProcessDataList ==
    /\ At("process_data_list")
    /\ LET agg == ProcessFrom([category_data |-> category_data,
                               faculty_stats |-> faculty_stats,
                               global_faculty_stats |-> global_faculty_stats,
                               article_stats |-> article_stats,
                               article_stats_obj |-> article_stats_obj,
                               warnings |-> warnings], data)
       IN  /\ category_data' = agg.category_data
           /\ faculty_stats' = agg.faculty_stats
           /\ global_faculty_stats' = agg.global_faculty_stats
           /\ article_stats' = agg.article_stats
           /\ article_stats_obj' = agg.article_stats_obj
           /\ warnings' = agg.warnings
    /\ Returns("process_data_list")
    /\ UNCHANGED <<pipe_vars, util_vars, data, judged, name_variations, saved>>

RemoveNearDuplicates ==
    /\ At("remove_near_duplicates")
    /\ LET res == remove_near_duplicates(category_data, judged)
       IN  /\ name_variations' = res.name_variations
           /\ category_data' = res.category_data
    /\ Returns("remove_near_duplicates")
    /\ UNCHANGED <<pipe_vars, util_vars, data, judged, faculty_stats, global_faculty_stats, article_stats,
                   article_stats_obj, warnings, saved>>

UpdateFacultyCount ==
    /\ At("update_faculty_count")
    /\ category_data' = update_faculty_count(category_data)
    /\ Returns("update_faculty_count")
    /\ UNCHANGED <<pipe_vars, util_vars, data, judged, faculty_stats, global_faculty_stats, article_stats,
                   article_stats_obj, name_variations, warnings, saved>>

UpdateDepartmentCount ==
    /\ At("update_department_count")
    /\ category_data' = update_department_count(category_data)
    /\ Returns("update_department_count")
    /\ UNCHANGED <<pipe_vars, util_vars, data, judged, faculty_stats, global_faculty_stats, article_stats,
                   article_stats_obj, name_variations, warnings, saved>>

RefineFacultyStats ==
    /\ At("refine_faculty_stats")
    /\ faculty_stats' = refine_faculty_stats(faculty_stats, name_variations, category_data)
    /\ IF RefineRaises(faculty_stats, category_data)
       THEN pc' = 0 /\ log' = log
       ELSE Returns("refine_faculty_stats")
    /\ UNCHANGED <<pipe_vars, util_vars, data, judged, category_data, global_faculty_stats, article_stats,
                   article_stats_obj, name_variations, warnings, saved>>

SerializeAndSaveData ==
    /\ At("serialize_and_save_data")
    /\ category_data' = addUrl(category_data)
    /\ \E written \in CategoryDataOut(addUrl(category_data)) :
          saved' = [saved EXCEPT !.category_data = written]
    /\ Returns("serialize_and_save_data")
    /\ UNCHANGED <<pipe_vars, util_vars, data, judged, faculty_stats, global_faculty_stats, article_stats,
                   article_stats_obj, name_variations, warnings>>

SerializeAndSaveFacultyStats ==
    /\ At("serialize_and_save_faculty_stats")
    /\ \E written \in FacultyStatsOut(faculty_stats) :
          saved' = [saved EXCEPT !.faculty_stats = written]
    /\ Returns("serialize_and_save_faculty_stats")
    /\ UNCHANGED <<pipe_vars, util_vars, data, judged, aggregates, name_variations, warnings>>

SerializeAndSaveArticleStats ==
    /\ At("serialize_and_save_article_stats")
    /\ \E written \in ArticleStatsOut(article_stats) :
          saved' = [saved EXCEPT !.article_stats = written]
    /\ warnings' = Append(warnings, [category |-> "Data Serialization",
                                     id |-> "article_stats"])
    /\ Returns("serialize_and_save_article_stats")
    /\ UNCHANGED <<pipe_vars, util_vars, data, judged, aggregates, name_variations>>

SerializeAndSaveArticleStatsObj ==
    /\ At("serialize_and_save_article_stats_obj")
    /\ saved' = [saved EXCEPT !.article_stats_obj = ArticleStatsObjOut(article_stats_obj)]
    /\ warnings' = Append(warnings, [category |-> "Data Serialization",
                                     id |-> "article_stats_obj"])
    /\ Returns("serialize_and_save_article_stats_obj")
    /\ UNCHANGED <<pipe_vars, util_vars, data, judged, aggregates, name_variations>>

SerializeAndSaveGlobalFacultyStats ==
    /\ At("serialize_and_save_global_faculty_stats")
    /\ \E written \in GlobalFacultyStatsOut(global_faculty_stats) :
          saved' = [saved EXCEPT !.global_faculty_stats = written]
    /\ Returns("serialize_and_save_global_faculty_stats")
    /\ UNCHANGED <<pipe_vars, util_vars, data, judged, aggregates, name_variations, warnings>>

Next ==
    \/ ProcessDataList
    \/ RemoveNearDuplicates
    \/ UpdateFacultyCount
    \/ UpdateDepartmentCount
    \/ RefineFacultyStats
    \/ SerializeAndSaveData
    \/ SerializeAndSaveFacultyStats
    \/ SerializeAndSaveArticleStats
    \/ SerializeAndSaveArticleStatsObj
    \/ SerializeAndSaveGlobalFacultyStats

Spec == Init /\ [][Next]_vars

(***************************************************************************)
(* run_pipeline, from the fetch to the call of run_classification           *)
(***************************************************************************)
\* run_pipeline is entered: db.get_dois() has answered and the data collection
\* has returned the articles.
PipelineInit ==
    /\ p_pc = "fetched"
    /\ fetched \in SeqsUpTo(Articles, MaxFetched)
    /\ existing_dois \in SUBSET Dois
    /\ debug \in BOOLEAN
    /\ filtered_data = <<>>
    /\ already_existing_count = 0
    /\ batch = fetched
    /\ sliced = <<>>
    /\ handed = <<>>
    /\ error = ""
    /\ orchestrator = "none"
    /\ db_calls = <<>>
    /\ data = <<>>
    /\ judged = {}
    /\ Constructed
    /\ UtilIdle

\* The filter loop and data = filtered_data.
FilterArticles ==
    /\ p_pc = "fetched"
    /\ LET res == FilterLoop([filtered_data |-> <<>>, already_existing_count |-> 0],
                             fetched, existing_dois)
       IN  /\ filtered_data' = res.filtered_data
           /\ already_existing_count' = res.already_existing_count
           /\ batch' = res.filtered_data
    /\ p_pc' = "filtered"
    /\ UNCHANGED <<orch_vars, util_vars, fetched, existing_dois, debug, sliced, handed, tail_vars>>

\* if self.debug: is false.
SkipDebugPrompt ==
    /\ p_pc = "filtered"
    /\ ~debug
    /\ p_pc' = "ready"
    /\ UNCHANGED <<orch_vars, util_vars, fetched, existing_dois, debug, filtered_data,
                   already_existing_count, batch, sliced, handed, tail_vars>>

\* The debug prompt: the operator answers "y" and a count, or anything else.
\* int(res) of an answer that is no number raises ValueError out of
\* run_pipeline.
DebugPrompt ==
    /\ p_pc = "filtered"
    /\ debug
    /\ \E response \in {"y", "n"} : \E res \in SliceAnswers :
          IF response # "y"
          THEN p_pc' = "ready" /\ UNCHANGED <<batch, sliced, error>>
          ELSE IF ~res.isint
               THEN p_pc' = "raised" /\ error' = "ValueError" /\ UNCHANGED <<batch, sliced>>
               ELSE /\ p_pc' = "ready"
                    /\ batch' = PySlice(batch, res.n)
                    /\ sliced' = <<res.n>>
                    /\ UNCHANGED error
    /\ UNCHANGED <<orch_vars, util_vars, fetched, existing_dois, debug, filtered_data,
                   already_existing_count, handed, orchestrator, db_calls>>

\* data = self.classification_orchestrator.run_classification(data)
RunClassification ==
    /\ p_pc = "ready"
    /\ handed' = batch
    /\ p_pc' = "classifying"
    /\ UNCHANGED <<orch_vars, util_vars, fetched, existing_dois, debug, filtered_data,
                   already_existing_count, batch, sliced, tail_vars>>

PipelineNext ==
    \/ FilterArticles
    \/ SkipDebugPrompt
    \/ DebugPrompt
    \/ RunClassification

PipelineSpec == PipelineInit /\ [][PipelineNext]_vars

(***************************************************************************)
(* run_pipeline, from the return of run_classification to its end.  The    *)
(* CategoryDataOrchestrator the pipeline imports is the class of            *)
(* academic_metrics.orchestrators, whose code is not part of the source     *)
(* tree at hand: it takes the keywords _create_orchestrator passes and has  *)
(* the get_final_* methods run_pipeline calls.  Its run is the sequence of  *)
(* the spec (4.5): aggregate, resolve, refine, recompute the counts.  A run *)
(* starts where run_classification has returned for a batch in which every *)
(* fetched article was new.                                                 *)
(***************************************************************************)
\* The classified records run_classification may return, and the batches of
\* them.
ClassifiedSample ==
    {[id |-> "a1", cites |-> CiteOf["a1"], authors |-> <<"J. Smith", "Jon Smith">>,
      cats |-> <<"CS", "Pure Math">>],
     [id |-> "a2", cites |-> CiteOf["a2"], authors |-> <<"John Smith">>, cats |-> <<"CS">>],
     [id |-> "a1", cites |-> CiteOf["a1"], authors |-> <<"Jon Smith">>, cats |-> <<>>]}
ClassifiedBatches == SeqsUpTo(ClassifiedSample, MaxRecords)

\* Orchestrator.run (spec 4.5) on a batch, the similarity policy judging the
\* pairs `same` alike: Aggregator.process_all, RelationshipTracker
\* .update_counts, Resolver.resolve, Refiner.apply (the per-category maps, the
\* categories' faculty sets and the global map), RelationshipTracker
\* .update_counts again.
OrchestratorRun(records, same) ==
    LET agg == process_data_list(records)
        counted == update_department_count(update_faculty_count(agg.category_data))
        resolved == remove_near_duplicates(counted, same)
        mapping == resolved.name_variations
    IN  [category_data |->
             update_department_count(update_faculty_count(resolved.category_data)),
         faculty_stats |->
             refine_faculty_stats(agg.faculty_stats, mapping, resolved.category_data),
         global_faculty_stats |->
             RefineMembers(agg.global_faculty_stats,
                           faculty_members(agg.global_faculty_stats), mapping),
         article_stats |-> agg.article_stats,
         article_stats_obj |-> agg.article_stats_obj,
         name_variations |-> mapping,
         warnings |-> agg.warnings]

\* The finished aggregates the orchestrator exposes (spec 4.5, 6).
get_final_category_data == category_data
get_final_article_data == article_stats_obj
get_final_global_faculty_data == global_faculty_stats

\* A slip in the call of db.run_all_process: the article data and the faculty
\* data change places.
RunAllProcessArgsSwapped(cd, ad, fd) ==
    [category_data |-> cd, article_data |-> fd, faculty_data |-> ad]
\* The keyword arguments of self.db.run_all_process(...).
RunAllProcessArgs(cd, ad, fd) ==
    [category_data |-> cd, article_data |-> ad, faculty_data |-> fd]

\* category_orchestrator = self._create_orchestrator(data=data, extend=...):
\* the orchestrator is constructed for the classified data.
CreateOrchestrator ==
    /\ p_pc = "classifying"
    /\ \E classified \in ClassifiedBatches : data' = classified
    /\ orchestrator' = "constructed"
    /\ p_pc' = "created"
    /\ UNCHANGED <<util_vars, judged, pc, log, aggregates, name_variations, warnings, saved,
                   fetched, existing_dois, debug, filtered_data, already_existing_count,
                   batch, sliced, handed, error, db_calls>>

\* category_orchestrator.run_orchestrator()
RunOrchestrator ==
    /\ p_pc = "created"
    /\ LET run == OrchestratorRun(data, judged)
       IN  /\ category_data' = run.category_data
           /\ faculty_stats' = run.faculty_stats
           /\ global_faculty_stats' = run.global_faculty_stats
           /\ article_stats' = run.article_stats
           /\ article_stats_obj' = run.article_stats_obj
           /\ name_variations' = run.name_variations
           /\ warnings' = run.warnings
    /\ orchestrator' = "finished"
    /\ p_pc' = "ran"
    /\ UNCHANGED <<util_vars, data, judged, pc, log, saved, fetched, existing_dois, debug,
                   filtered_data, already_existing_count, batch, sliced, handed, error,
                   db_calls>>

\* The three get_final_* reads and the call of db.run_all_process inside the
\* try block.  An exception of the database is caught and logged, so
\* run_pipeline returns in both cases.
SaveToDatabase ==
    /\ p_pc = "ran"
    /\ db_calls' = Append(db_calls, RunAllProcessArgs(get_final_category_data,
                                                      get_final_article_data,
                                                      get_final_global_faculty_data))
    /\ \E db_raises \in BOOLEAN :
          p_pc' = IF db_raises THEN "save_error_logged" ELSE "saved"
    /\ UNCHANGED <<orch_vars, util_vars, fetched, existing_dois, debug, filtered_data,
                   already_existing_count, batch, sliced, handed, error, orchestrator>>

PipelineTailInit ==
    /\ p_pc = "classifying"
    /\ fetched \in SeqsUpTo({a \in Articles : a.found /\ a.doi \in Dois}, 1)
    /\ existing_dois = {}
    /\ debug = FALSE
    /\ filtered_data = fetched
    /\ already_existing_count = 0
    /\ batch = fetched
    /\ sliced = <<>>
    /\ handed = fetched
    /\ error = ""
    /\ orchestrator = "none"
    /\ db_calls = <<>>
    /\ data = <<>>
    /\ judged \in SUBSET NamePairs
    /\ Constructed
    /\ UtilIdle

PipelineTailNext ==
    \/ CreateOrchestrator
    \/ RunOrchestrator
    \/ SaveToDatabase

\* run_pipeline's position moves on: to the next statement, or out of the call.
PipelineProceeds ==
    /\ p_pc \in {"classifying", "created", "ran"}
    /\ p_pc' \in {"created", "ran", "saved", "save_error_logged"} \ {p_pc}

\* run_pipeline is one sequential call: each of its statements is executed
\* once the previous one has returned, and each of them returns (the batch is
\* finite), so the position does not rest before the call has returned.  The
\* steps that move the position are those of PipelineTailNext, one of which
\* is possible at every position before the return.
PipelineTailSpec == PipelineTailInit /\ [][PipelineTailNext]_vars /\ WF_p_pc(PipelineProceeds)

(***************************************************************************)
(* DataClassFactory: any sequence of calls of its three class methods      *)
(***************************************************************************)
FactoryInit ==
    /\ data = <<>>
    /\ judged = {}
    /\ Constructed
    /\ PipelineIdle
    /\ UtilIdle

\* @DataClassFactory.register_dataclass(t) applied to the class cls.
RegisterDataclass ==
    /\ Len(reg_log) < MaxRegistrations
    /\ \E t \in DataClassTypes : \E cls \in DataClasses :
          /\ registry' = register_dataclass(registry, t, cls)
          /\ reg_log' = Append(reg_log, [t |-> t, cls |-> cls])
          /\ fcall' = [op |-> "register", t |-> t, result |-> cls]
    /\ UNCHANGED <<orch_vars, pipe_vars, made, convert_vars, url_vars, db_vars>>

\* factory.get_dataclass(t, **init_params)
GetDataclass ==
    /\ made < MaxInstances
    /\ \E f \in Factories : \E t \in DataClassTypes : \E init_params \in InitParamChoices :
          LET res == get_dataclass(registry, t, init_params, made)
          IN  /\ made' = IF res.raised = "" THEN made + 1 ELSE made
              /\ fcall' = [op |-> "get", factory |-> f, t |-> t, params |-> init_params,
                           before |-> registry, outcome |-> res]
    /\ UNCHANGED <<orch_vars, pipe_vars, registry, reg_log, convert_vars, url_vars, db_vars>>

\* factory.is_registered(t)
IsRegistered ==
    /\ \E f \in Factories : \E t \in DataClassTypes :
          fcall' = [op |-> "is_registered", factory |-> f, t |-> t, before |-> registry,
                    result |-> is_registered(registry, t)]
    /\ UNCHANGED <<orch_vars, pipe_vars, registry, reg_log, made, convert_vars, url_vars, db_vars>>

FactoryNext ==
    \/ RegisterDataclass
    \/ GetDataclass
    \/ IsRegistered

FactorySpec == FactoryInit /\ [][FactoryNext]_vars

(***************************************************************************)
(* convert_sets_to_lists applied to a dictionary                           *)
(***************************************************************************)
ConvertInit ==
    /\ data = <<>>
    /\ judged = {}
    /\ Constructed
    /\ PipelineIdle
    /\ FactoryIdle
    /\ UrlIdle
    /\ DatabaseIdle
    /\ conv_in \in InputDicts(MaxDictKeys, MaxDepth)
    /\ conv_out = <<>>

\* self.convert_sets_to_lists(conv_in)
ConvertSetsToLists ==
    /\ conv_out = <<>>
    /\ \E returned \in convert_sets_to_lists(conv_in) : conv_out' = <<returned>>
    /\ UNCHANGED <<orch_vars, pipe_vars, factory_vars, url_vars, db_vars, conv_in>>

ConvertNext == ConvertSetsToLists

ConvertSpec == ConvertInit /\ [][ConvertNext]_vars

(***************************************************************************)
(* addUrl applied to a category dictionary                                 *)
(***************************************************************************)
UrlInit ==
    /\ data = <<>>
    /\ judged = {}
    /\ Constructed
    /\ PipelineIdle
    /\ FactoryIdle
    /\ ConvertIdle
    /\ DatabaseIdle
    /\ url_data \in UrlDicts
    /\ url_done = FALSE

\* self.addUrl()
AddUrl ==
    /\ ~url_done
    /\ url_data' = addUrlByName(url_data)
    /\ url_done' = TRUE
    /\ UNCHANGED <<orch_vars, pipe_vars, factory_vars, convert_vars, db_vars>>

UrlNext == AddUrl

UrlSpec == UrlInit /\ [][UrlNext]_vars

(***************************************************************************)
(* ArticleDatabase: the constructor, as the module's __main__ calls it, and *)
(* the two insert methods called on an instance.  No instance comes out of  *)
(* ArticleDatabase.__init__; the instance the methods are called on is one  *)
(* made without it (a subclass with its own __init__, object.__new__).      *)
(***************************************************************************)
DatabaseInit ==
    /\ data = <<>>
    /\ judged = {}
    /\ Constructed
    /\ PipelineIdle
    /\ FactoryIdle
    /\ ConvertIdle
    /\ UrlIdle
    /\ db_inst \in {"new", "instance"}
    /\ db_in \in ArticleMappings
    /\ db_out = <<>>

\* database = ArticleDatabase(db_name='Site_Data', collection_name='article_data')
ConstructArticleDatabase ==
    /\ db_inst = "new"
    /\ db_out = <<>>
    /\ SuperInitRaises
    /\ db_out' = <<[op |-> "__init__", raised |-> "TypeError"] @@ NoInsert>>
    /\ db_inst' = "raised"
    /\ UNCHANGED <<orch_vars, pipe_vars, factory_vars, convert_vars, url_vars, db_in>>

\* database.insert_articles(db_in)
InsertArticles ==
    /\ db_inst = "instance"
    /\ db_out = <<>>
    /\ db_out' = <<insert_articles(db_in)>>
    /\ UNCHANGED <<orch_vars, pipe_vars, factory_vars, convert_vars, url_vars, db_inst, db_in>>

\* database.insert_article(identifier, article)
InsertArticle ==
    /\ db_inst = "instance"
    /\ db_out = <<>>
    /\ \E identifier \in ArticleKeys : \E article \in ArticleDocs :
          db_out' = <<insert_article(identifier, article)>>
    /\ UNCHANGED <<orch_vars, pipe_vars, factory_vars, convert_vars, url_vars, db_inst, db_in>>

DatabaseNext ==
    \/ ConstructArticleDatabase
    \/ InsertArticles
    \/ InsertArticle

DatabaseSpec == DatabaseInit /\ [][DatabaseNext]_vars

(***************************************************************************)
(* Properties                                                              *)
(***************************************************************************)
\* The aggregates of the raw pass over the batch, before any refinement.
Raw == process_data_list(data)

\* The sum of a field (citation total or article count) over the entries of
\* the map d whose key has canonical name k.
VariantSum(d, nv, k, field) ==
    SumSeq([i \in 1..Len(d) |->
              IF Canon(nv, d[i].k) = k
              THEN (IF field = "citations" THEN d[i].v.total_citations
                    ELSE d[i].v.article_count)
              ELSE 0])
VariantDois(d, nv, k) ==
    UNION {d[i].v.doi_list : i \in {j \in 1..Len(d) : Canon(nv, d[j].k) = k}}

\* C1: once both count updates of refine_faculty_sets have run, in every later
\* state of the run (after refine_faculty_stats, at and after every
\* serialize_and_save_* call) each CategoryInfo has faculty_count equal to the
\* size of its faculty set and department_count equal to the size of its
\* department set, and the counts written to the category file are those sizes.
C1_CountInvariant ==
    (Called("update_faculty_count") /\ Called("update_department_count")) =>
        /\ \A i \in 1..Len(category_data) :
              /\ category_data[i].v.faculty_count = Cardinality(category_data[i].v.faculty)
              /\ category_data[i].v.department_count =
                     Cardinality(category_data[i].v.departments)
        /\ Called("serialize_and_save_data") =>
              \A i \in 1..Len(saved.category_data) :
                 /\ saved.category_data[i].faculty_count =
                        Cardinality(category_data[i].v.faculty)
                 /\ saved.category_data[i].department_count =
                        Cardinality(category_data[i].v.departments)

\* C1 witness: the run has ended with a category whose two raw spellings
\* collapsed to one person (count 1) from two departments (count 2).
C1_Witness ==
    /\ Done
    /\ \E i \in 1..Len(category_data) :
          /\ Cardinality(Get(Raw.category_data, category_data[i].k).faculty) = 2
          /\ category_data[i].v.faculty_count = 1
          /\ category_data[i].v.department_count = 2

\* The phase a call of the run belongs to.
PhaseOf(step) ==
    IF step = "process_data_list" THEN "aggregate"
    ELSE IF step = "remove_near_duplicates" THEN "resolve"
    ELSE IF step \in {"update_faculty_count", "update_department_count"} THEN "recompute"
    ELSE IF step = "refine_faculty_stats" THEN "refine_stats"
    ELSE "serialize"

RECURSIVE Phases(_)
\* The phases of a sequence of calls, consecutive calls of one phase taken
\* together.
Phases(calls) ==
    IF calls = <<>> THEN <<>>
    ELSE LET rest == Phases(Tail(calls))
             ph == PhaseOf(Head(calls))
         IN  IF rest # <<>> /\ Head(rest) = ph THEN rest ELSE <<ph>> \o rest

IsPrefix(s, t) == Len(s) <= Len(t) /\ SubSeq(t, 1, Len(s)) = s

\* C2 as stated: a finished run consists of aggregation, a count recompute
\* over raw spellings, name resolution, refine_faculty_stats, a final count
\* recompute, and serialization, in this order.
C2_StatedOrder ==
    Done => Phases(log) = <<"aggregate", "recompute", "resolve", "refine_stats",
                            "recompute", "serialize">>

\* C2 amended: the calls of a run are, in this order, aggregation, name
\* resolution, one recompute of the counts (faculty, then department),
\* refine_faculty_stats, and serialization; the counts are recomputed exactly
\* once, after resolution and before refine_faculty_stats.
C2_ActualOrder ==
    /\ IsPrefix(Phases(log), <<"aggregate", "resolve", "recompute", "refine_stats",
                               "serialize">>)
    /\ Done => Phases(log) = <<"aggregate", "resolve", "recompute", "refine_stats",
                               "serialize">>
    /\ \A i, j \in 1..Len(log) : log[i] = log[j] => i = j
    /\ Called("update_department_count") => Called("update_faculty_count")
    /\ Called("refine_faculty_stats") =>
          {"update_faculty_count", "update_department_count"} \subseteq Range(log)

\* C2 witness: a finished run over a batch that produced a category.
C2_Witness == Done /\ Len(category_data) > 0 /\ Len(log) = Len(RunOrder)

\* C3: when the global faculty statistics are serialized, no key of
\* global_faculty_stats (and no entry written) is a variant that the name
\* mapping sends to another canonical name.
C3_GlobalKeysCanonical ==
    Called("serialize_and_save_global_faculty_stats") =>
        /\ \A k \in KeySet(global_faculty_stats) : Canon(name_variations, k) = k
        /\ \A i \in 1..Len(saved.global_faculty_stats) :
              Canon(name_variations, saved.global_faculty_stats[i].name) =
                  saved.global_faculty_stats[i].name

\* C4: after refine_faculty_stats has returned, every category of
\* category_data has a faculty map, none of its keys is a variant mapped to
\* another canonical name, and its keys are exactly the canonical names of the
\* keys the raw pass left: a variant was merged into or renamed to its
\* canonical key.
C4_NoVariantKeys ==
    Called("refine_faculty_stats") =>
        \A c \in KeySet(category_data) :
           /\ Has(faculty_stats, c)
           /\ \A k \in KeySet(Get(faculty_stats, c)) :
                 /\ Canon(name_variations, k) = k
                 /\ Get(Get(faculty_stats, c), k).name = k
           /\ KeySet(Get(faculty_stats, c)) =
                 {Canon(name_variations, k) : k \in KeySet(Get(Raw.faculty_stats, c))}

\* C4 witness: refinement has run on a batch where one category held a variant
\* beside its canonical name (a merge) and another held the variant alone (a
\* rename).
C4_Witness ==
    /\ Called("refine_faculty_stats")
    /\ \E c1, c2 \in KeySet(Raw.faculty_stats) : \E v \in Names :
          /\ Canon(name_variations, v) # v
          /\ v \in KeySet(Get(Raw.faculty_stats, c1))
          /\ Canon(name_variations, v) \in KeySet(Get(Raw.faculty_stats, c1))
          /\ v \in KeySet(Get(Raw.faculty_stats, c2))
          /\ Canon(name_variations, v) \notin KeySet(Get(Raw.faculty_stats, c2))
          /\ Canon(name_variations, v) \in KeySet(Get(faculty_stats, c2))

\* C5: after refine_faculty_stats (the names being resolved), in every
\* category the entry of each canonical name has the sum of the citation totals
\* and of the article counts, and the union of the identifier sets, of the raw
\* entries of all the names mapped to it, and every raw name has its canonical
\* entry.
C5_MergeConservation ==
    (Called("refine_faculty_stats") /\ Called("remove_near_duplicates")) =>
        \A c \in KeySet(Raw.faculty_stats) :
           LET raw == Get(Raw.faculty_stats, c)
               post == Get(faculty_stats, c)
           IN  /\ \A v \in KeySet(raw) : Has(post, Canon(name_variations, v))
               /\ \A k \in KeySet(post) :
                     /\ Get(post, k).total_citations =
                            VariantSum(raw, name_variations, k, "citations")
                     /\ Get(post, k).article_count =
                            VariantSum(raw, name_variations, k, "articles")
                     /\ Get(post, k).doi_list = VariantDois(raw, name_variations, k)

\* C5 witness: a canonical entry that received another spelling's article: it
\* holds both identifiers and the 8 citations of the two articles.
C5_Witness ==
    /\ Called("refine_faculty_stats")
    /\ \E c \in KeySet(faculty_stats) : \E k \in KeySet(Get(faculty_stats, c)) :
          /\ Get(Get(faculty_stats, c), k).doi_list = {"a1", "a2"}
          /\ Get(Get(faculty_stats, c), k).total_citations = 8
          /\ \A v \in KeySet(Get(Raw.faculty_stats, c)) :
                Cardinality(Get(Get(Raw.faculty_stats, c), v).doi_list) = 1

\* C6: a second refine_faculty_stats with the same mapping, applied to what the
\* first call left, changes nothing.
C6_RefineIdempotent ==
    (Called("refine_faculty_stats") /\ Called("remove_near_duplicates")) =>
        refine_faculty_stats(faculty_stats, name_variations, category_data) = faculty_stats

\* C6 witness: the first call did merge a variant.
C6_Witness ==
    /\ Called("refine_faculty_stats")
    /\ \E c \in KeySet(faculty_stats) :
          Len(Get(faculty_stats, c)) < Len(Get(Raw.faculty_stats, c))

\* C7: when the policy judges a~b and b~c for three observed names, the three
\* have one canonical name, and after refine_faculty_stats every category that
\* held any of them holds exactly one entry for them, under the canonical name,
\* with the summed counts and the united identifiers of the raw entries of a, b
\* and c; this for every order of the batch and of the keys.
C7_Transitive ==
    (Called("refine_faculty_stats") /\ Called("remove_near_duplicates")) =>
        \A a, b, c \in Vocabulary(Raw.category_data) :
           (a # b /\ b # c /\ a # c /\ {a, b} \in judged /\ {b, c} \in judged) =>
              /\ Canon(name_variations, a) = Canon(name_variations, b)
              /\ Canon(name_variations, b) = Canon(name_variations, c)
              /\ \A cat \in KeySet(Raw.faculty_stats) :
                    LET raw == Get(Raw.faculty_stats, cat)
                        post == Get(faculty_stats, cat)
                        k == Canon(name_variations, a)
                    IN  KeySet(raw) \cap {a, b, c} # {} =>
                           /\ KeySet(post) \cap {a, b, c} = {k}
                           /\ Get(post, k).total_citations =
                                  SumSeq([i \in 1..Len(raw) |->
                                            IF raw[i].k \in {a, b, c}
                                            THEN raw[i].v.total_citations ELSE 0])
                           /\ Get(post, k).doi_list =
                                  UNION {raw[i].v.doi_list :
                                           i \in {j \in 1..Len(raw) : raw[j].k \in {a, b, c}}}

\* C7 witness: J. Smith ~ Jon Smith and Jon Smith ~ John Smith are judged, J.
\* Smith ~ John Smith is not; a category held the three spellings, the
\* canonical one first, and holds one entry after refinement.
C7_Witness ==
    /\ Called("refine_faculty_stats")
    /\ judged = {{"J. Smith", "Jon Smith"}, {"Jon Smith", "John Smith"}}
    /\ \E cat \in KeySet(Raw.faculty_stats) :
          /\ Keys(Get(Raw.faculty_stats, cat)) = <<"John Smith", "J. Smith", "Jon Smith">>
          /\ Keys(Get(faculty_stats, cat)) = <<"John Smith">>

RemoveAt(s, j) == SubSeq(s, 1, j - 1) \o SubSeq(s, j + 1, Len(s))

\* C8: the category_data the aggregation leaves is the one it leaves for the
\* batch with any of its records given once more, and, when a record occurs
\* twice in the batch, the one it leaves for the batch with the second
\* occurrence removed.
C8_NoDoubleCount ==
    log = <<"process_data_list">> =>
        /\ \A i \in 1..Len(data) :
              process_data_list(Append(data, data[i])).category_data = category_data
        /\ \A i, j \in 1..Len(data) :
              (i < j /\ data[i] = data[j]) =>
                 process_data_list(RemoveAt(data, j)).category_data = category_data

\* C8 witness: a batch holding one well-formed record twice has been aggregated.
C8_Witness ==
    /\ log = <<"process_data_list">>
    /\ Len(data) = 2 /\ data[1] = data[2] /\ ~IsMalformed(data[1])
    /\ Len(category_data) = 2
    /\ \A i \in 1..Len(category_data) : category_data[i].v.article_count = 1

\* A record without identifier or without category tag.
LacksRequired(r) == r.id = NoId \/ r.cats = <<>>

\* C9: a record without identifier or without category tag adds one diagnostic
\* and nothing else: the aggregates are those of the batch without such
\* records, the run is never aborted, and when it ends every well-formed record
\* of the batch is in the written category data and (its identifier occurring
\* once in the batch) in the written faculty statistics of its authors.
C9_MalformedSkipped ==
    /\ pc # 0
    /\ Done =>
          \A i \in 1..Len(data) :
             ~IsMalformed(data[i]) =>
                /\ \A c \in Range(data[i].cats) :
                      \E j \in 1..Len(saved.category_data) :
                         /\ saved.category_data[j].category_name = c
                         /\ data[i].id \in Range(saved.category_data[j].doi_list)
                /\ \A a \in Range(data[i].authors) :
                      (\A h \in 1..Len(data) : data[h].id = data[i].id => h = i) =>
                      \E j \in 1..Len(saved.faculty_stats) :
                         /\ saved.faculty_stats[j].name = Canon(name_variations, a)
                         /\ data[i].id \in Range(saved.faculty_stats[j].doi_list)
    /\ log = <<"process_data_list">> =>
          LET others == process_data_list(SelectSeq(data, LAMBDA r : ~LacksRequired(r)))
          IN  /\ category_data = others.category_data
              /\ faculty_stats = others.faculty_stats
              /\ global_faculty_stats = others.global_faculty_stats
              /\ article_stats = others.article_stats
              /\ article_stats_obj = others.article_stats_obj
              /\ Len(SelectSeq(warnings, LAMBDA w : w.category = "MalformedRecord"))
                    = Len(SelectSeq(data, IsMalformed))
              /\ \A i \in 1..Len(data) :
                    LacksRequired(data[i]) =>
                       \E w \in Range(warnings) :
                          w.category = "MalformedRecord" /\ w.id = data[i].id

\* C9 witness: a run has ended whose batch held a record without identifier and
\* a well-formed record, which was aggregated and written.
C9_Witness ==
    /\ Done
    /\ \E i \in 1..Len(data) : data[i].id = NoId
    /\ Len(saved.category_data) > 0
    /\ Len(saved.global_faculty_stats) > 0

\* The articles of a list that have a DOI which is not already known.
NewArticles(articles) ==
    SelectSeq(articles, LAMBDA a : a.found /\ a.doi \notin existing_dois)

\* C10 as stated: the batch handed to classification is exactly the fetched
\* articles, in order, that have a DOI not returned by db.get_dois(); it and
\* the dropped articles counted add up to the fetched ones.
C10_HandedIsFiltered ==
    p_pc = "classifying" =>
        /\ handed = NewArticles(fetched)
        /\ Len(handed) + already_existing_count = Len(fetched)

\* C10 amended: filtered_data is exactly that subsequence and with the count of
\* dropped articles adds up to the fetched ones; the batch handed to
\* classification is filtered_data, except that in debug mode, when the
\* operator asks for a slice n, it is filtered_data[:n]; in every case no
\* article handed on has a DOI already known or lacks one.
C10_FilteredThenSliced ==
    /\ p_pc \in {"filtered", "ready", "raised", "classifying"} =>
          /\ filtered_data = NewArticles(fetched)
          /\ Len(filtered_data) + already_existing_count = Len(fetched)
    /\ p_pc = "classifying" =>
          /\ handed = IF sliced = <<>> THEN filtered_data
                      ELSE PySlice(filtered_data, sliced[1])
          /\ sliced # <<>> => debug
          /\ \A i \in 1..Len(handed) :
                handed[i].found /\ handed[i].doi \notin existing_dois

\* C10 witness: of three fetched articles one was dropped (its DOI known or
\* missing), two were kept, and the debug slice handed on the first of them.
C10_Witness ==
    /\ p_pc = "classifying"
    /\ Len(fetched) = 3
    /\ already_existing_count = 1
    /\ Len(filtered_data) = 2
    /\ sliced = <<1>>
    /\ handed = <<filtered_data[1]>>
    /\ \E i \in 1..3 : fetched[i].found /\ fetched[i].doi \in existing_dois

\* run_pipeline has returned after the call of db.run_all_process.
PipelineReturned == p_pc \in {"saved", "save_error_logged"}

FullyRefined == refine_faculty_stats(Raw.faculty_stats, name_variations, Raw.category_data)

\* C12: refine_faculty_stats starts only after remove_near_duplicates has
\* returned with the complete name mapping; no serialize_and_save_* call
\* happens before refine_faculty_stats has returned, and nothing is written
\* until then; what the serialization reads and writes is the fully refined
\* state: no written faculty entry is a variant, and the identifiers of every
\* raw entry are in a written entry of its canonical name.
C12_SerializeSeesRefined ==
    LET raw == Raw
        refined == FullyRefined
    IN  /\ \A i \in 1..Len(log) :
              PhaseOf(log[i]) = "serialize" =>
                 \E j \in 1..(i - 1) : log[j] = "refine_faculty_stats"
        /\ \A i \in 1..Len(log) :
              log[i] = "refine_faculty_stats" =>
                 \E j \in 1..(i - 1) : log[j] = "remove_near_duplicates"
        /\ Called("refine_faculty_stats") =>
              name_variations = remove_near_duplicates(raw.category_data, judged).name_variations
        /\ ~Called("refine_faculty_stats") => saved = NothingSaved
        /\ Called("serialize_and_save_faculty_stats") =>
              /\ faculty_stats = refined
              /\ saved.faculty_stats \in FacultyStatsOut(refined)
              /\ \A j \in 1..Len(saved.faculty_stats) :
                    Canon(name_variations, saved.faculty_stats[j].name) =
                        saved.faculty_stats[j].name
              /\ \A c \in KeySet(raw.faculty_stats) :
                    \A v \in KeySet(Get(raw.faculty_stats, c)) :
                       \E j \in 1..Len(saved.faculty_stats) :
                          /\ saved.faculty_stats[j].name = Canon(name_variations, v)
                          /\ Get(Get(raw.faculty_stats, c), v).doi_list
                                \subseteq Range(saved.faculty_stats[j].doi_list)
        /\ Called("serialize_and_save_data") =>
              \A j \in 1..Len(saved.category_data) :
                 saved.category_data[j].faculty_count =
                    Cardinality({Canon(name_variations, v) :
                       v \in Get(raw.category_data, saved.category_data[j].category_name).faculty})

\* C12 witness: a run has written the faculty statistics after a refinement
\* that merged a variant: fewer entries are written than the raw pass held.
C12_Witness ==
    /\ Called("serialize_and_save_faculty_stats")
    /\ \E n \in Names : Canon(name_variations, n) # n
    /\ \A unrefined \in FacultyStatsOut(Raw.faculty_stats) :
          Len(saved.faculty_stats) < Len(unrefined)
    /\ Len(saved.faculty_stats) > 0

\* Equality of two Python dicts, which does not depend on the order of keys,
\* the values compared by Same.
SameDict(a, b, Same(_, _)) ==
    /\ KeySet(a) = KeySet(b)
    /\ \A k \in KeySet(a) : Same(Get(a, k), Get(b, k))
\* The number of occurrences of x in the list s.
Occurrences(s, x) == Cardinality({i \in 1..Len(s) : s[i] = x})
\* Two CategoryInfo with the same fields, the citation lists holding the same
\* entries the same number of times.
SameCategoryInfo(x, y) ==
    /\ [x EXCEPT !.tc_list = <<>>] = [y EXCEPT !.tc_list = <<>>]
    /\ \A v \in Range(x.tc_list) \cup Range(y.tc_list) :
          Occurrences(x.tc_list, v) = Occurrences(y.tc_list, v)
SameFacultyMap(x, y) == SameDict(x, y, LAMBDA u, v : u = v)
\* The sharded aggregation of the batch split at S gives the aggregates of the
\* sequential pass.
ShardedAgrees(S) ==
    LET sharded == AggregateSharded(data, S)
    IN  /\ SameDict(sharded.category_data, category_data, SameCategoryInfo)
        /\ SameDict(sharded.faculty_stats, faculty_stats, SameFacultyMap)
\* An article identifier occurs in both shards of the split at S.
Straddles(S) ==
    \E i \in S : \E j \in (1..Len(data)) \ S :
       data[i].id = data[j].id /\ ~IsMalformed(data[i]) /\ ~IsMalformed(data[j])

\* C13 as stated: for every split of the batch into two shards, identifiers
\* repeated or not, the combined partial maps are the category_data and
\* faculty_stats of the sequential pass.
C13_ShardsCombine ==
    log = <<"process_data_list">> => \A S \in SUBSET (1..Len(data)) : ShardedAgrees(S)

\* C13 amended: the combined partial maps are those of the sequential pass for
\* every split in which no article identifier occurs in both shards (it may
\* repeat within a shard); the maps are compared as mappings and the citation
\* lists by their entries.
C13_DisjointShardsCombine ==
    log = <<"process_data_list">> =>
        \A S \in SUBSET (1..Len(data)) : ~Straddles(S) => ShardedAgrees(S)

\* C13 witness: a batch of two well-formed records has been aggregated which
\* splits into two non-empty shards sharing no identifier, both contributing
\* to one category and to one author's statistics.
C13_Witness ==
    /\ log = <<"process_data_list">>
    /\ Len(data) = 2
    /\ ~IsMalformed(data[1]) /\ ~IsMalformed(data[2])
    /\ data[1].id # data[2].id
    /\ Range(data[1].cats) \cap Range(data[2].cats) # {}
    /\ Range(data[1].authors) \cap Range(data[2].authors) # {}
    /\ ~Straddles({1})
    /\ \E i \in 1..Len(category_data) : category_data[i].v.article_count = 2

\* The positions of the register_dataclass calls made so far for the type t.
RegistrationsOf(t) == {i \in 1..Len(reg_log) : reg_log[i].t = t}
\* The class of the latest of them.
LastRegistered(t) ==
    reg_log[CHOOSE i \in RegistrationsOf(t) : \A j \in RegistrationsOf(t) : j <= i].cls

\* C14: on any factory instance, get_dataclass(t) raises ValueError exactly
\* when no register_dataclass(t) happened earlier; otherwise it returns a new
\* instance of the class registered last for t, set_params having been called
\* exactly when init parameters were given; is_registered(t) is true exactly
\* where get_dataclass(t) does not raise; neither call changes the registry.
C14_FactoryContract ==
    /\ fcall.op = "get" =>
          /\ (fcall.outcome.raised = "ValueError") <=> (RegistrationsOf(fcall.t) = {})
          /\ fcall.outcome.raised \in {"", "ValueError"}
          /\ fcall.outcome.raised = "" =>
                /\ fcall.outcome.instance.cls = LastRegistered(fcall.t)
                /\ fcall.outcome.instance.id = made
                /\ fcall.outcome.instance.set_params_called <=> (fcall.params # <<>>)
                /\ fcall.outcome.instance.params = fcall.params
          /\ registry = fcall.before
    /\ fcall.op = "is_registered" =>
          /\ fcall.result <=> (RegistrationsOf(fcall.t) # {})
          /\ registry = fcall.before
    /\ \A t \in DataClassTypes : \A init_params \in InitParamChoices :
          is_registered(registry, t) <=>
             (get_dataclass(registry, t, init_params, made).raised = "")

\* C14 witness: after two registrations of one type with different classes, a
\* second instance has been created, with init parameters; it is of the class
\* registered last, and the other type is not registered.
C14_Witness ==
    /\ fcall.op = "get"
    /\ fcall.outcome.raised = ""
    /\ fcall.params # <<>>
    /\ made = 2
    /\ Len(reg_log) = 2
    /\ reg_log[1].t = reg_log[2].t
    /\ reg_log[1].cls # reg_log[2].cls
    /\ fcall.outcome.instance.cls = reg_log[2].cls
    /\ \E t \in DataClassTypes : ~is_registered(registry, t)

RECURSIVE HasSet(_)
\* A set object is the value or is somewhere inside it.
HasSet(value) ==
    IF value.t = "set" THEN TRUE
    ELSE IF value.t = "list" THEN \E i \in 1..Len(value.items) : HasSet(value.items[i])
    ELSE IF value.t = "dict"
         THEN \E i \in 1..Len(value.entries) : HasSet(value.entries[i].v)
    ELSE FALSE

RECURSIVE SetsReplaced(_, _)
\* The value after is the value before with every set, at any depth, replaced
\* by a list of the same elements, and nothing else changed.
SetsReplaced(before, after) ==
    IF before.t = "set"
    THEN /\ after.t = "list"
         /\ Len(after.items) = Cardinality(before.elems)
         /\ {after.items[i] : i \in 1..Len(after.items)} = {PyAtom(x) : x \in before.elems}
    ELSE IF before.t = "list"
    THEN /\ after.t = "list"
         /\ Len(after.items) = Len(before.items)
         /\ \A i \in 1..Len(before.items) : SetsReplaced(before.items[i], after.items[i])
    ELSE IF before.t = "dict"
    THEN /\ after.t = "dict"
         /\ Len(after.entries) = Len(before.entries)
         /\ \A i \in 1..Len(before.entries) :
               /\ after.entries[i].k = before.entries[i].k
               /\ SetsReplaced(before.entries[i].v, after.entries[i].v)
    ELSE after = before

\* C15: after convert_sets_to_lists(d) has returned, no set remains anywhere
\* in d: every set at the top level, inside a nested dictionary or inside a
\* list has been replaced by a list of the same elements, and every other
\* value is unchanged.
C15_NoSetRemains ==
    conv_out # <<>> =>
        /\ ~HasSet(conv_out[1])
        /\ SetsReplaced(conv_in, conv_out[1])

\* A URL-safe slug: lowercase ASCII letters, digits and hyphens only, no
\* hyphen first or last, no two hyphens in a row.
IsSlug(url) ==
    /\ \A i \in 1..Len(url) : url[i] \in Range(Lowers) \cup Digits \cup {"-"}
    /\ url # <<>> => url[1] # "-" /\ url[Len(url)] # "-"
    /\ \A i \in 1..(Len(url) - 1) : ~(url[i] = "-" /\ url[i + 1] = "-")

\* C16: after addUrl the url of every category is a URL-safe slug of its
\* name, and the slug transformation applied to that url returns it unchanged.
C16_UrlIsSlug ==
    url_done =>
        \A i \in 1..Len(url_data) :
           /\ IsSlug(url_data[i].v.url)
           /\ url_data[i].v.url = Slug(url_data[i].k)
           /\ Slug(url_data[i].v.url) = url_data[i].v.url

\* C16 witness: addUrl has run on two categories, one named " A-É": upper
\* case, a leading blank, and a hyphen followed by a letter outside ASCII at
\* the end; its url is "a", and the url of "Pure Math" is "pure-math".
C16_Witness ==
    /\ url_done
    /\ Len(url_data) = 2
    /\ url_data[1].k = <<" ", "A", "-", "É">>
    /\ url_data[1].v.url = <<"a">>
    /\ url_data[2].v.url = <<"p", "u", "r", "e", "-", "m", "a", "t", "h">>

\* The two loops of refine_faculty_stats (lines 226-236) on the maps the
\* aggregation built: every faculty name that is in a category's map when the
\* loops begin is passed to FacultyStats.refine_faculty_stats exactly once, and
\* no other name, although the refinement deletes keys of that map.  Whether a
\* category of category_data can lack its faculty_stats entry is a matter of
\* CategoryProcessor and is not part of this property.
RefineLoopPassesEachNameOnce ==
    At("refine_faculty_stats") =>
        LET calls == RefineCalls(faculty_stats, categories(category_data),
                                 name_variations)
            reached == {c \in KeySet(category_data) : Has(faculty_stats, c)}
        IN  /\ \A c \in reached :
                  \A n \in KeySet(Get(faculty_stats, c)) :
                     Cardinality({i \in 1..Len(calls) :
                                     calls[i] = [category |-> c,
                                                 faculty_name_unrefined |-> n]}) = 1
            /\ \A i \in 1..Len(calls) :
                  /\ calls[i].category \in reached
                  /\ calls[i].faculty_name_unrefined
                        \in KeySet(Get(faculty_stats, calls[i].category))

\* refine_faculty_stats is about to run on a category whose map holds a
\* variant and its canonical name: the merge deletes the variant's key while
\* the loop over the snapshot of the keys goes on.
RefineLoopDeletesKey ==
    /\ At("refine_faculty_stats")
    /\ \E c \in KeySet(faculty_stats) : \E v \in KeySet(Get(faculty_stats, c)) :
          /\ Canon(name_variations, v) # v
          /\ Has(Get(faculty_stats, c), Canon(name_variations, v))
          /\ ~Has(Get(refine_faculty_stats(faculty_stats, name_variations, category_data), c),
                  v)

\* C18: insert_articles(article_data) hands to insert_data, in one call,
\* exactly one document per key of the mapping, each the key's document with
\* its '_id' field set to the key.
C18_EveryArticleInserted ==
    (db_out # <<>> /\ db_out[1].op = "insert_articles") =>
        /\ db_out[1].raised = ""
        /\ Len(db_out[1].insert_data_calls) = 1
        /\ LET docs == db_out[1].insert_data_calls[1]
           IN  /\ Len(docs) = Len(db_in)
               /\ \A i \in 1..Len(db_in) :
                     Cardinality({j \in 1..Len(docs) :
                                     docs[j] = [db_in[i].v EXCEPT !._id = db_in[i].k]}) = 1

====
